---- MODULE Spec2Model ----
(***************************************************************************)
(* Model of the model deployment CI/CD pipeline that the notebook          *)
(* assignments/05-assignment-deploy.ipynb describes: the model registry,   *)
(* the two EventBridge rules, the steps of the CodePipeline pipeline with  *)
(* its manual approval, the staging and production inference endpoints,    *)
(* and the notebook's own code cells.                                      *)
(***************************************************************************)
EXTENDS Integers, Sequences, FiniteSets, Bags, TLC

\* ---------------------------------------------------------------- bounds
MaxEvents == 2      \* events put on the event bus in one behaviour
MaxVersions == 2    \* model package versions registered in the group

\* ------------------------------------------------------------- constants
TargetGroup == "from-idea-to-prod-model-group"
OtherGroup == "other-model-group"
Groups == {TargetGroup, OtherGroup}

ModelDetailType == "SageMaker Model Package State Change"
ModelSource == "aws.sagemaker"
\* The notebook shows no event pattern for the -code rule, only that it
\* launches the pipeline on each push into the source code repository; a
\* push event carries the tags below and the repository pushed into.
CodeDetailType == "CodeCommit Repository State Change"
CodeSource == "aws.codecommit"
SourceRepository == "source-code-repository"
OtherRepository == "other-repository"
Repositories == {SourceRepository, OtherRepository}

\* ------------------------------------------------------------- notebook
\* A line of a code cell is the sequence of its Python tokens, each with its
\* type (NAME, OP, COMMENT) and its text. The shipped cells hold two kinds of
\* statement, `import NAME` and `from NAME import NAME, ...`, besides
\* comments; the operators below are defined on these and on nothing else.
N(s) == [ type |-> "NAME", string |-> s ]
O(s) == [ type |-> "OP", string |-> s ]
C(s) == [ type |-> "COMMENT", string |-> s ]

\* The code cells of the notebook as shipped.
NotebookCells ==
  << << << N("import"), N("boto3") >>,
        << N("import"), N("sagemaker") >>,
        << N("from"), N("time"), N("import"),
           N("gmtime"), O(","), N("strftime"), O(","), N("sleep") >> >>,
     << << C("# Get project details after you created the project") >>,
        << C("# project_name = <YOUR PROJECT NAME>") >>,
        << C("# sm.describe_project(ProjectName=project_name)") >> >>,
     << >> >>

\* the keywords of Python 3.7, which are NAME tokens and no names
Keywords ==
  { "False", "None", "True", "and", "as", "assert", "async", "await", "break",
    "class", "continue", "def", "del", "elif", "else", "except", "finally",
    "for", "from", "global", "if", "import", "in", "is", "lambda", "nonlocal",
    "not", "or", "pass", "raise", "return", "try", "while", "with", "yield" }

\* a NAME token that names a module: any identifier that is no keyword
IsModuleName(tok) == tok.type = "NAME" /\ tok.string \notin Keywords

\* a NAME token an import can bind: Python compiles no binding of a keyword
\* nor of __debug__
IsName(tok) == IsModuleName(tok) /\ tok.string # "__debug__"

\* the modules the notebook imports, each with the names it imports from it
ImportedNames ==
  [ boto3 |-> {}, sagemaker |-> {}, time |-> {"gmtime", "strftime", "sleep"} ]

IsCode(tok) == tok.type # "COMMENT"

\* the tokens of a line without its comment
CodeOf(line) == SelectSeq(line, IsCode)

\* the statement `import NAME`, one module, no dots, no alias
IsImportName(code) ==
  Len(code) = 2 /\ code[1] = N("import") /\ IsName(code[2])

\* the statement `from NAME import NAME, NAME, ...`, no dots, no alias
IsFromImportNames(code) ==
  /\ Len(code) >= 4
  /\ Len(code) % 2 = 0
  /\ code[1] = N("from")
  /\ IsModuleName(code[2])
  /\ code[3] = N("import")
  /\ \A j \in 4..Len(code) :
       IF j % 2 = 0 THEN IsName(code[j]) ELSE code[j] = O(",")

\* namespace ns with name x bound to an object of module m
Bind(ns, x, m) ==
  [ n \in DOMAIN ns \cup {x} |-> IF n = x THEN m ELSE ns[n] ]

RECURSIVE BindAll(_, _, _)
BindAll(ns, toks, m) ==
  IF toks = << >> THEN ns
  ELSE BindAll(IF IsName(Head(toks)) THEN Bind(ns, Head(toks).string, m) ELSE ns,
               Tail(toks), m)

\* Running one line in the kernel state st = [ns, calls]: a comment or blank
\* line does nothing, an import binds its names; neither issues an SDK call.
\* Other statements, and imports of other modules or names, are not modelled.
ExecLine(line, st) ==
  LET code == CodeOf(line)
  IN CASE code = << >> -> st
       [] IsImportName(code) /\ code[2].string \in DOMAIN ImportedNames ->
            [ st EXCEPT !.ns = Bind(@, code[2].string, code[2].string) ]
       [] /\ IsFromImportNames(code)
          /\ code[2].string \in DOMAIN ImportedNames
          /\ \A j \in 4..Len(code) :
               IsName(code[j]) => code[j].string \in ImportedNames[code[2].string] ->
            [ st EXCEPT !.ns = BindAll(@, SubSeq(code, 4, Len(code)), code[2].string) ]

RECURSIVE RunLines(_, _)
\* the lines of a cell run in order
RunLines(lines, st) ==
  IF lines = << >> THEN st
  ELSE RunLines(Tail(lines), ExecLine(Head(lines), st))

\* running a cell of one-line statements in namespace ns: the new namespace
\* and the SDK calls the cell issued
RunCellSource(cell, ns) == RunLines(cell, [ ns |-> ns, calls |-> << >> ])

\* ------------------------------------------------------- EventBridge rules
\* variant: the pattern names another detail-type
ModelRulePatternWrongType ==
  [ detailType |-> {"SageMaker Model State Change"},
    source     |-> {"aws.sagemaker"},
    group      |-> {"from-idea-to-prod-model-group"} ]

\* variant: the pattern names another model package group
ModelRulePatternWrongGroup ==
  [ detailType |-> {"SageMaker Model Package State Change"},
    source     |-> {"aws.sagemaker"},
    group      |-> {"from-idea-to-prod"} ]

\* the event pattern of the -model rule; it has no field for the status
ModelRulePattern ==
  [ detailType |-> {ModelDetailType},
    source     |-> {ModelSource},
    group      |-> {TargetGroup} ]

\* variant: the rule does not look at the model package group
MatchesModelRuleAnyGroup(ev) ==
  /\ ev.detailType \in ModelRulePattern.detailType
  /\ ev.source \in ModelRulePattern.source

MatchesModelRule(ev) ==
  /\ ev.detailType \in ModelRulePattern.detailType
  /\ ev.source \in ModelRulePattern.source
  /\ ev.group \in ModelRulePattern.group

\* variant: the -code rule watches another repository
MatchesCodeRuleOtherRepository(ev) ==
  /\ ev.detailType = CodeDetailType
  /\ ev.source = CodeSource
  /\ ev.repository = OtherRepository

\* the -code rule: a push into the source code repository
MatchesCodeRule(ev) ==
  /\ ev.detailType = CodeDetailType
  /\ ev.source = CodeSource
  /\ ev.repository = SourceRepository

StateChangeEvent(g, v, s) ==
  [ detailType |-> ModelDetailType, source |-> ModelSource,
    group |-> g, version |-> v, status |-> s, repository |-> "" ]

PushEvent(repo) ==
  [ detailType |-> CodeDetailType, source |-> CodeSource,
    group |-> "", version |-> 0, status |-> "", repository |-> repo ]

\* ------------------------------------------------------------- pipeline
\* variant: the unit tests are placed before the staging deployment
PipelineActionsTestFirst ==
  << "Build", "TestStaging", "DeployResourceStaging", "ApproveDeployment",
     "DeployResourceProd" >>

\* The steps of an execution, in the order the notebook gives them: the build
\* (latest approved model package, configuration files), the deployment of
\* the staging endpoint, the model unit tests, the manual approval, the
\* deployment of the production endpoint. The notebook says that the pipeline
\* has four stages and names two of them (the build stage and DeployStaging);
\* how the steps are grouped into stages is not modelled.
PipelineActions ==
  << "Build", "DeployResourceStaging", "TestStaging", "ApproveDeployment",
     "DeployResourceProd" >>

IndexOf(a) == CHOOSE n \in 1..Len(PipelineActions) : PipelineActions[n] = a

\* variant: the unit tests are skipped after the staging deployment
NextActionSkipsTest(a) ==
  IF IndexOf(a) = Len(PipelineActions) THEN "Succeeded"
  ELSE IF a = "DeployResourceStaging" THEN "ApproveDeployment"
  ELSE PipelineActions[IndexOf(a) + 1]

\* the action an execution runs after action a has succeeded
NextAction(a) ==
  IF IndexOf(a) = Len(PipelineActions) THEN "Succeeded"
  ELSE PipelineActions[IndexOf(a) + 1]

\* ------------------------------------------------------------- registry
\* variant: the most recent version of the group, whatever its status
LatestVersion(reg) == Len(reg)

\* the most recent version of the group whose status is Approved, 0 if none
LatestApproved(reg) ==
  LET approved == { v \in 1..Len(reg) : reg[v] = "Approved" }
  IN IF approved = {} THEN 0
     ELSE CHOOSE v \in approved : \A w \in approved : w <= v

\* ------------------------------------------------------------ endpoints
\* An endpoint records its status, the model version of the deployment last
\* started on it and the execution that started that deployment.
NoEndpoint == [ status |-> "None", version |-> 0, by |-> 0 ]

BeingDeployed(ep) == ep.status \in {"Creating", "Updating"}

\* execution i starts to deploy version v: the endpoint is created if there
\* is none and updated otherwise
DeployingEndpoint(ep, v, i) ==
  [ status |-> IF ep.status = "None" THEN "Creating" ELSE "Updating",
    version |-> v, by |-> i ]

\* the deployment ends: the endpoint is InService, or the deployment failed
DeployedEndpoint(ep, ok) ==
  [ ep EXCEPT !.status = IF ok THEN "InService" ELSE "Failed" ]

\* a new execution launched by event ev; approvedBefore records whether a
\* version of the group had been approved by then
NewExecution(ev, approvedBefore) ==
  [ trigger |-> ev, approvedBefore |-> approvedBefore, pc |-> PipelineActions[1],
    running |-> FALSE, version |-> 0, approval |-> "None", log |-> << >> ]

\* ---------------------------------------------------------------- state
VARIABLES
  registry,    \* statuses of the versions of the group TargetGroup (packages
               \* of other groups are seen only through their events)
  bus,         \* bag of the events on the event bus not yet evaluated
  emitted,     \* number of events put on the event bus so far
  everApproved,\* whether a version of TargetGroup has been approved so far
  execs,       \* pipeline executions, in order of start
  endpoints,   \* staging and production inference endpoints
  namespace,   \* names bound in the notebook kernel, each with its module
  sdkCalls,    \* SDK calls issued by the notebook so far
  registrationReported
               \* whether the registration of a version is reported on the
               \* event bus as a model package state change

vars == << registry, bus, emitted, everApproved, execs, endpoints, namespace, sdkCalls,
          registrationReported >>
notebook == << namespace, sdkCalls >>

Init ==
  /\ registry = << >>
  /\ bus = EmptyBag
  /\ emitted = 0
  /\ everApproved = FALSE
  /\ execs = << >>
  /\ endpoints = [ staging |-> NoEndpoint, prod |-> NoEndpoint ]
  /\ namespace = [ n \in {} |-> "" ]
  /\ sdkCalls = << >>
  /\ registrationReported \in BOOLEAN

\* -------------------------------------------------------------- actions
\* The model building pipeline registers a new version of the model. The
\* notebook says that the -model rule launches the pipeline "on any model
\* package state change" and also "when a model package version is approved
\* or rejected"; whether a registration counts as a state change it does not
\* say. The platform does one or the other: if registrations are reported, a
\* registration puts a state change event on the event bus.
RegisterVersion ==
  /\ Len(registry) < MaxVersions
  /\ registrationReported => emitted < MaxEvents
  /\ registry' = Append(registry, "PendingManualApproval")
  /\ bus' = IF registrationReported
            THEN bus (+) SetToBag({StateChangeEvent(TargetGroup, Len(registry) + 1,
                                                    "PendingManualApproval")})
            ELSE bus
  /\ emitted' = IF registrationReported THEN emitted + 1 ELSE emitted
  /\ UNCHANGED << everApproved, execs, endpoints >>
  /\ UNCHANGED << notebook, registrationReported >>

\* the registry side of the state: the versions, the events, the history
Registry ==
  [ registry |-> registry, bus |-> bus, emitted |-> emitted,
    everApproved |-> everApproved ]

\* version v of group g changes its status to s: the registry records it and
\* a model package state change event is put on the event bus
ChangeStatus(p, g, v, s) ==
  [ registry |-> IF g = TargetGroup THEN [ p.registry EXCEPT ![v] = s ]
                 ELSE p.registry,
    bus |-> p.bus (+) SetToBag({StateChangeEvent(g, v, s)}),
    emitted |-> p.emitted + 1,
    everApproved |-> (p.everApproved \/ (g = TargetGroup /\ s = "Approved")) ]

\* a model version is approved or rejected in the Model Registry
UpdateModelPackage(g, v, s) ==
  /\ emitted < MaxEvents
  /\ g = TargetGroup => v \in 1..Len(registry) /\ registry[v] # s
  /\ g # TargetGroup => v = 1
  /\ \E q \in { ChangeStatus(Registry, g, v, s) } :
       /\ registry' = q.registry
       /\ bus' = q.bus
       /\ emitted' = q.emitted
       /\ everApproved' = q.everApproved
  /\ UNCHANGED << execs, endpoints >>
  /\ UNCHANGED << notebook, registrationReported >>

\* a push into repository repo
Push(repo) ==
  /\ emitted < MaxEvents
  /\ bus' = bus (+) SetToBag({PushEvent(repo)})
  /\ emitted' = emitted + 1
  /\ UNCHANGED << registry, everApproved, execs, endpoints >>
  /\ UNCHANGED << notebook, registrationReported >>

\* EventBridge evaluates the -code and -model rules on an event
DeliverEvent(ev) ==
  /\ BagIn(ev, bus)
  /\ bus' = bus (-) SetToBag({ev})
  /\ execs' = IF MatchesCodeRule(ev) \/ MatchesModelRule(ev)
              THEN Append(execs, NewExecution(ev, everApproved))
              ELSE execs
  /\ UNCHANGED << registry, emitted, everApproved, endpoints >>
  /\ UNCHANGED << notebook, registrationReported >>

Complete(e, a) ==
  [ e EXCEPT !.pc = NextAction(a), !.running = FALSE, !.log = Append(@, a) ]

Fail(e) == [ e EXCEPT !.pc = "Failed", !.running = FALSE ]

\* the build: retrieve the latest approved model package, build the configs
BuildResult(e, reg) ==
  IF LatestApproved(reg) = 0 THEN Fail(e)
  ELSE [ Complete(e, "Build") EXCEPT !.version = LatestApproved(reg) ]

BuildAction(i) ==
  /\ i \in 1..Len(execs)
  /\ execs[i].pc = "Build"
  /\ execs' = [ execs EXCEPT ![i] = BuildResult(@, registry) ]
  /\ UNCHANGED << registry, bus, emitted, everApproved, endpoints >>
  /\ UNCHANGED << notebook, registrationReported >>

\* Execution i starts the CloudFormation deploy action a on endpoint name;
\* the action waits while another deployment of that endpoint is under way.
StartDeploy(i, a, name) ==
  /\ i \in 1..Len(execs)
  /\ execs[i].pc = a
  /\ ~execs[i].running
  /\ ~BeingDeployed(endpoints[name])
  /\ endpoints' = [ endpoints EXCEPT
                      ![name] = DeployingEndpoint(@, execs[i].version, i) ]
  /\ execs' = [ execs EXCEPT ![i].running = TRUE ]
  /\ UNCHANGED << registry, bus, emitted, everApproved >>
  /\ UNCHANGED << notebook, registrationReported >>

\* The deploy action a of execution i ends: the endpoint is InService and the
\* action has succeeded, or the deployment failed and so has the execution.
EndDeploy(i, a, name, ok) ==
  /\ i \in 1..Len(execs)
  /\ execs[i].pc = a
  /\ execs[i].running
  /\ endpoints' = [ endpoints EXCEPT ![name] = DeployedEndpoint(@, ok) ]
  /\ execs' = [ execs EXCEPT ![i] = IF ok THEN Complete(@, a) ELSE Fail(@) ]
  /\ UNCHANGED << registry, bus, emitted, everApproved >>
  /\ UNCHANGED << notebook, registrationReported >>

\* DeployStaging stage, CloudFormation deploy action of the staging endpoint
DeployResourceStaging(i, ok) ==
  \/ ok /\ StartDeploy(i, "DeployResourceStaging", "staging")
  \/ EndDeploy(i, "DeployResourceStaging", "staging", ok)

\* the model unit tests against the staging endpoint
TestStaging(i, pass) ==
  /\ i \in 1..Len(execs)
  /\ execs[i].pc = "TestStaging"
  /\ execs' = [ execs EXCEPT ![i] =
                  IF pass /\ endpoints.staging.status = "InService"
                  THEN [ Complete(@, "TestStaging") EXCEPT !.approval = "Pending" ]
                  ELSE Fail(@) ]
  /\ UNCHANGED << registry, bus, emitted, everApproved, endpoints >>
  /\ UNCHANGED << notebook, registrationReported >>

\* variant: a rejected approval does not stop the execution
ApproveDeploymentIgnoresRejection(i, granted) ==
  /\ i \in 1..Len(execs)
  /\ execs[i].pc = "ApproveDeployment"
  /\ execs' = [ execs EXCEPT ![i] =
                  [ Complete(@, "ApproveDeployment") EXCEPT
                      !.approval = IF granted THEN "Approved" ELSE "Rejected" ] ]
  /\ UNCHANGED << registry, bus, emitted, everApproved, endpoints >>
  /\ UNCHANGED << notebook, registrationReported >>

\* the manual approval of the DeployStaging stage is granted or rejected
ApproveDeployment(i, granted) ==
  /\ i \in 1..Len(execs)
  /\ execs[i].pc = "ApproveDeployment"
  /\ execs' = [ execs EXCEPT ![i] =
                  IF granted
                  THEN [ Complete(@, "ApproveDeployment") EXCEPT !.approval = "Approved" ]
                  ELSE [ Fail(@) EXCEPT !.approval = "Rejected" ] ]
  /\ UNCHANGED << registry, bus, emitted, everApproved, endpoints >>
  /\ UNCHANGED << notebook, registrationReported >>

\* variant: the deploy action of the production endpoint reports success
\* while the endpoint is still being created or updated
DeployResourceProdEarly(i, ok) ==
  \/ ok /\ StartDeploy(i, "DeployResourceProd", "prod")
  \/ /\ i \in 1..Len(execs)
     /\ execs[i].pc = "DeployResourceProd"
     /\ execs[i].running
     /\ endpoints' = IF ok THEN endpoints
                     ELSE [ endpoints EXCEPT !.prod = DeployedEndpoint(@, ok) ]
     /\ execs' = [ execs EXCEPT ![i] =
                     IF ok THEN Complete(@, "DeployResourceProd") ELSE Fail(@) ]
     /\ UNCHANGED << registry, bus, emitted, everApproved >>
     /\ UNCHANGED << notebook, registrationReported >>

\* CloudFormation deploy action of the production endpoint
DeployResourceProd(i, ok) ==
  \/ ok /\ StartDeploy(i, "DeployResourceProd", "prod")
  \/ EndDeploy(i, "DeployResourceProd", "prod", ok)

\* variant: the describe_project cell is run with its last line uncommented
RunCellStubActive(k) ==
  /\ k \in 1..Len(NotebookCells)
  /\ \E r \in { RunCellSource(NotebookCells[k], namespace) } :
       /\ namespace' = r.ns
       /\ sdkCalls' = IF k = 2 THEN << "describe_project" >> ELSE sdkCalls \o r.calls
  /\ UNCHANGED << registry, bus, emitted, everApproved, execs, endpoints >>
  /\ UNCHANGED registrationReported

\* run code cell k of the notebook in the kernel (cells can be run in any
\* order and again)
RunCell(k) ==
  /\ k \in 1..Len(NotebookCells)
  /\ \E r \in { RunCellSource(NotebookCells[k], namespace) } :
       /\ namespace' = r.ns
       /\ sdkCalls' = sdkCalls \o r.calls
  /\ UNCHANGED << registry, bus, emitted, everApproved, execs, endpoints >>
  /\ UNCHANGED registrationReported

\* the steps of the registry, the event rules and the pipeline
PipelineNext ==
  \/ RegisterVersion
  \/ \E g \in Groups, v \in 1..MaxVersions, s \in {"Approved", "Rejected"} :
       UpdateModelPackage(g, v, s)
  \/ \E repo \in Repositories : Push(repo)
  \/ \E ev \in BagToSet(bus) : DeliverEvent(ev)
  \/ \E i \in 1..MaxEvents : BuildAction(i)
  \/ \E i \in 1..MaxEvents, ok \in BOOLEAN : DeployResourceStaging(i, ok)
  \/ \E i \in 1..MaxEvents, pass \in BOOLEAN : TestStaging(i, pass)
  \/ \E i \in 1..MaxEvents, granted \in BOOLEAN : ApproveDeployment(i, granted)
  \/ \E i \in 1..MaxEvents, ok \in BOOLEAN : DeployResourceProd(i, ok)

Next ==
  \/ PipelineNext
  \/ \E k \in 1..Len(NotebookCells) : RunCell(k)

Spec == Init /\ [][Next]_vars

\* the project components on their own, while no notebook cell is run
PipelineSpec == Init /\ [][PipelineNext]_vars

\* the steps the platform takes by itself: event delivery and the automated
\* pipeline actions (the manual approval is a person's step)
PlatformStep ==
  \/ \E ev \in BagToSet(bus) : DeliverEvent(ev)
  \/ \E i \in 1..MaxEvents : BuildAction(i)
  \/ \E i \in 1..MaxEvents, ok \in BOOLEAN : DeployResourceStaging(i, ok)
  \/ \E i \in 1..MaxEvents, pass \in BOOLEAN : TestStaging(i, pass)
  \/ \E i \in 1..MaxEvents, ok \in BOOLEAN : DeployResourceProd(i, ok)

\* fairness: the platform keeps making progress while it has a step to take
FairSpec == PipelineSpec /\ WF_vars(PlatformStep)

\* ---------------------------------------------------------------- claims
Execs == 1..Len(execs)

InLog(e, a) == \E n \in 1..Len(e.log) : e.log[n] = a

\* a occurs in the log of e and b occurs before it
Precedes(e, b, a) ==
  \E n \in 1..Len(e.log) : e.log[n] = a /\ \E m \in 1..(n - 1) : e.log[m] = b

IsPrefix(p, q) == Len(p) <= Len(q) /\ \A n \in 1..Len(p) : p[n] = q[n]

ApprovalEvent(v) == StateChangeEvent("from-idea-to-prod-model-group", v, "Approved")

ProjectPush == PushEvent("source-code-repository")

\* the executions launched by a push into the source code repository
PushExecs == { i \in Execs : execs[i].trigger = ProjectPush }

\* C1: the production endpoint is deployed only by an execution whose manual
\* approval was granted before, in that same execution; an execution whose
\* approval is pending, rejected or not yet asked never deploys it.
C1_ProdOnlyAfterApproval ==
  /\ \A i \in Execs :
       InLog(execs[i], "DeployResourceProd") =>
         /\ execs[i].approval = "Approved"
         /\ Precedes(execs[i], "ApproveDeployment", "DeployResourceProd")
  /\ \A i \in Execs :
       execs[i].approval # "Approved" =>
         /\ endpoints.prod.by # i
         /\ ~InLog(execs[i], "DeployResourceProd")
  /\ endpoints.prod.status # "None" =>
       /\ endpoints.prod.by \in Execs
       /\ execs[endpoints.prod.by].approval = "Approved"

\* an approved execution deployed production while another one was rejected
C1_Witness ==
  /\ endpoints.prod.status = "InService"
  /\ \E i \in Execs : execs[i].approval = "Approved" /\ endpoints.prod.by = i
  /\ \E j \in Execs : execs[j].approval = "Rejected"

\* C2 (as stated): no execution of the deployment pipeline starts unless a
\* model package version was approved before it.
C2_Original == \A i \in Execs : execs[i].approvedBefore

\* C2 (amended): an approval of a model version of the group launches an
\* execution of the deployment pipeline, and an execution launched by an
\* approval starts after that approval. (An approval is sufficient to launch
\* the pipeline, not necessary.)
C2_Amended ==
  /\ [][ \A v \in 1..MaxVersions :
           (BagIn(ApprovalEvent(v), bus)
              /\ bus' = bus (-) SetToBag({ApprovalEvent(v)})) =>
             /\ Len(execs') = Len(execs) + 1
             /\ execs'[Len(execs')].trigger = ApprovalEvent(v)
             /\ execs'[Len(execs')].approvedBefore ]_vars
  /\ [](\A i \in Execs :
          execs[i].trigger.status = "Approved" => execs[i].approvedBefore)

\* an approval launched an execution after a push had launched one with no
\* version approved
C2_Witness ==
  /\ \E i \in Execs : execs[i].trigger = ProjectPush /\ ~execs[i].approvedBefore
  /\ \E j \in Execs : execs[j].trigger.status = "Approved" /\ execs[j].approvedBefore

C4_Original ==
  (\E i \in Execs : execs[i].pc = "Succeeded") =>
    /\ endpoints.staging.status = "InService"
    /\ endpoints.prod.status = "InService"

\* C4 (amended): whenever an execution has completed successfully, the
\* staging and the production endpoint both exist, and each of them is
\* InService unless another execution has started a deployment of it since;
\* at the step that completes the execution the production endpoint is
\* InService.
C4_Amended ==
  /\ [](\A i \in Execs :
          execs[i].pc = "Succeeded" =>
            \A name \in {"staging", "prod"} :
              /\ endpoints[name].status # "None"
              /\ endpoints[name].by = i => endpoints[name].status = "InService")
  /\ [][ \A i \in Execs :
           (execs[i].pc # "Succeeded" /\ execs'[i].pc = "Succeeded") =>
             /\ endpoints'.prod.status = "InService"
             /\ endpoints'.prod.by = i
             /\ endpoints'.staging.status # "None" ]_vars

\* an execution has succeeded and its production endpoint is InService
\* while another execution is updating the staging endpoint
C4_Witness ==
  \E i \in Execs :
    /\ execs[i].pc = "Succeeded"
    /\ endpoints.prod.status = "InService"
    /\ endpoints.prod.by = i
    /\ endpoints.staging.status = "Updating"
    /\ endpoints.staging.by # i

\* C5: an approval of a model version leads to an execution launched by it
\* that has deployed the staging endpoint and reached the manual approval
\* (or has failed); and an execution whose manual approval is granted and
\* that has not ended yet leads to that execution having succeeded with the
\* production endpoint deployed by it and InService (or having failed in that
\* deployment).
C5_ApprovalLeadsToDeployment ==
  /\ \A v \in 1..MaxVersions :
       BagIn(ApprovalEvent(v), bus) ~>
         (\E i \in Execs :
            /\ execs[i].trigger = ApprovalEvent(v)
            /\ \/ execs[i].pc = "Failed"
               \/ /\ InLog(execs[i], "DeployResourceStaging")
                  /\ execs[i].approval # "None")
  /\ \A i \in 1..MaxEvents :
       (i \in Execs /\ execs[i].approval = "Approved"
          /\ execs[i].pc \notin {"Succeeded", "Failed"}) ~>
         (i \in Execs
            /\ \/ execs[i].pc = "Failed"
               \/ /\ execs[i].pc = "Succeeded"
                  /\ InLog(execs[i], "DeployResourceProd")
                  /\ endpoints.prod.status = "InService"
                  /\ endpoints.prod.by = i)

\* an execution launched by an approval succeeded
C5_Witness ==
  \E i \in Execs :
    /\ execs[i].trigger.status = "Approved"
    /\ execs[i].pc = "Succeeded"
    /\ endpoints.prod.by = i
    /\ endpoints.prod.status = "InService"

\* C6: when the rules evaluate a model package state change event, an
\* execution is launched if the package is in the group
\* from-idea-to-prod-model-group, whether approved or rejected, and none is
\* launched for a package of any other group.
C6_ModelRule ==
  [][ \A ev \in BagToSet(bus) :
        (ev.detailType = "SageMaker Model Package State Change"
           /\ bus' = bus (-) SetToBag({ev})) =>
          IF ev.group = "from-idea-to-prod-model-group"
          THEN /\ Len(execs') = Len(execs) + 1
               /\ execs'[Len(execs')].trigger = ev
               /\ execs'[Len(execs')].pc = "Build"
               /\ \A i \in Execs : execs'[i] = execs[i]
          ELSE execs' = execs ]_vars

\* a rejection launched an execution and the other event that was
\* evaluated, which was not of the group, launched none
C6_Witness ==
  /\ \E i \in Execs : execs[i].trigger.status = "Rejected"
  /\ bus = EmptyBag
  /\ emitted = 2
  /\ Len(execs) = 1

\* C7: every push into the source code repository is followed by an
\* execution of the pipeline launched by it, whether or not a model package
\* changed state: the n-th push leads to the n-th execution launched by a
\* push, and a push event leaves the event bus only by launching one.
C7_CodeRule ==
  /\ \A n \in 1..MaxEvents :
       (CopiesIn(ProjectPush, bus) + Cardinality(PushExecs) >= n)
         ~> (Cardinality(PushExecs) >= n)
  /\ [][ CopiesIn(ProjectPush, bus') < CopiesIn(ProjectPush, bus) =>
           /\ CopiesIn(ProjectPush, bus') = CopiesIn(ProjectPush, bus) - 1
           /\ Len(execs') = Len(execs) + 1
           /\ execs'[Len(execs')].trigger = ProjectPush
           /\ execs'[Len(execs')].pc = "Build"
           /\ \A i \in Execs : execs'[i] = execs[i] ]_vars

\* two pushes launched two executions though no model package exists
C7_Witness ==
  /\ Cardinality(PushExecs) = 2
  /\ registry = << >>
  /\ ~everApproved
  /\ bus = EmptyBag

\* C8: the version the build stage picks is Approved in the registry when
\* the build runs and no later version is Approved then; the build fails
\* when there is none; the endpoints hold the version their execution picked.
C8_LatestApprovedDeployed ==
  /\ [][ \A i \in Execs :
           (execs[i].pc = "Build" /\ execs'[i].pc # "Build") =>
             IF \E v \in 1..Len(registry) : registry[v] = "Approved"
             THEN /\ execs'[i].version \in 1..Len(registry)
                  /\ registry[execs'[i].version] = "Approved"
                  /\ \A w \in 1..Len(registry) :
                       w > execs'[i].version => registry[w] # "Approved"
             ELSE /\ execs'[i].pc = "Failed"
                  /\ execs'[i].version = 0 ]_vars
  /\ [][ \A i \in Execs :
           execs[i].pc # "Build" => execs'[i].version = execs[i].version ]_vars
  /\ [](\A name \in {"staging", "prod"} :
          endpoints[name].status # "None" =>
            /\ endpoints[name].by \in Execs
            /\ endpoints[name].version = execs[endpoints[name].by].version
            /\ endpoints[name].version > 0)

\* version 1 is deployed to staging by an execution that no approval
\* launched while the later version 2 is not approved
C8_Witness ==
  /\ Len(registry) = 2
  /\ registry[2] # "Approved"
  /\ endpoints.staging.status = "InService"
  /\ endpoints.staging.version = 1
  /\ execs[endpoints.staging.by].trigger.status # "Approved"

\* C9 (as stated): the stages are passed in the order build/config, test,
\* staging deploy with manual approval, production deploy, so the unit tests
\* of an execution have run before its staging deployment.
C9_Original ==
  \A i \in Execs :
    InLog(execs[i], "DeployResourceStaging") =>
      Precedes(execs[i], "TestStaging", "DeployResourceStaging")

\* C9 (amended): every execution passes through build/config, staging deploy,
\* the unit tests, the manual approval and production deploy in this order,
\* and no step starts before the step before it has succeeded.
C9_Amended ==
  /\ [](\A i \in Execs :
          /\ IsPrefix(execs[i].log,
                      << "Build", "DeployResourceStaging", "TestStaging",
                         "ApproveDeployment", "DeployResourceProd" >>)
          /\ execs[i].pc \notin {"Succeeded", "Failed"} =>
               << "Build", "DeployResourceStaging", "TestStaging",
                  "ApproveDeployment", "DeployResourceProd" >>[Len(execs[i].log) + 1]
                 = execs[i].pc
          /\ execs[i].pc = "Succeeded" => Len(execs[i].log) = 5)
  /\ [][ \A i \in Execs :
           execs'[i].log # execs[i].log =>
             execs'[i].log = Append(execs[i].log, execs[i].pc) ]_vars

\* an execution has deployed staging and has not yet run its unit tests
C9_Witness ==
  \E i \in Execs :
    /\ execs[i].pc = "TestStaging"
    /\ execs[i].log = << "Build", "DeployResourceStaging" >>

\* C10: the notebook never issues an SDK call, and a step that changes its
\* kernel leaves the registry, the event bus, the executions and the
\* endpoints unchanged.
C10_NotebookNoEffect ==
  /\ [][ (namespace' # namespace \/ sdkCalls' # sdkCalls) =>
           /\ sdkCalls' = sdkCalls
           /\ UNCHANGED << registry, bus, emitted, everApproved, execs, endpoints >>
       ]_vars
  /\ [](sdkCalls = << >>)

\* the import cell was run while a version was waiting for its approval
C10_Witness ==
  /\ DOMAIN namespace = {"boto3", "sagemaker", "gmtime", "strftime", "sleep"}
  /\ namespace["boto3"] = "boto3"
  /\ namespace["sleep"] = "time"
  /\ sdkCalls = << >>
  /\ Len(registry) > 0
  /\ registry[Len(registry)] = "PendingManualApproval"
  /\ execs = << >>
====
